---- MODULE Spec2Model ----
(***************************************************************************)
(* Model of the ctrnn crate: the Fluctuator (src/src/fluctuator.rs), the   *)
(* reinforcement-adaptive network RLCTRNN (src/src/rlctrnn.rs) and the     *)
(* plain CTRNN (src/src/lib.rs).                                           *)
(*                                                                         *)
(* f64 values are fixed-point integers with Scale units per 1.0, so 0.001  *)
(* is 1 and 10.0 is 10000.  Products and quotients truncate toward zero.   *)
(* Angles are counted in units of 30 degrees (PI is 6 units), the sine and *)
(* the exponential are tabulated.  Vec indices are 0-based as in the       *)
(* source; element i of a Vec v is v[i + 1].                               *)
(***************************************************************************)
EXTENDS Integers, Sequences, FiniteSets, TLC

VARIABLES obj, size, flux, prevFlux, net, prevNet, ctrnn, call, steps, panicked

vars == <<obj, size, flux, prevFlux, net, prevNet, ctrnn, call, steps, panicked>>

(* ------------------------------ bounds -------------------------------- *)

MaxSteps == 4
MaxOps == 2
MaxNodes == 2

(* ------------------------------ f64 ----------------------------------- *)

Scale == 1000

Abs(a) == IF a < 0 THEN -a ELSE a

TDiv(a, b) == IF (a < 0) = (b < 0) THEN Abs(a) \div Abs(b) ELSE -(Abs(a) \div Abs(b))

Mul(a, b) == TDiv(a * b, Scale)

Div(a, b) == TDiv(a * Scale, b)

Min(a, b) == IF a <= b THEN a ELSE b

Max(a, b) == IF a >= b THEN a ELSE b

Floor(a) == a - (a % Scale)

PI == 6

SinTable == <<0, 500, 866, 1000, 866, 500, 0, -500, -866, -1000, -866, -500>>

Sin(theta) == SinTable[(theta % (2 * PI)) + 1]

(* ---------------------------- Fluctuator ------------------------------ *)

(* clamp that forgets the lower end of the range *)
RangeClamp_upper_only(range, value) == Min(range.end, value)

RangeClamp(range, value) == Max(range.start, Min(range.end, value))

Fluctuator_default ==
    [ center |-> 0,
      range |-> [start |-> -16 * Scale, end |-> 16 * Scale],
      range_period |-> [start |-> 3 * Scale, end |-> 12 * Scale],
      range_amplitude |-> [start |-> Scale \div 1000, end |-> 10 * Scale],
      period |-> 0,
      amplitude |-> 0,
      time |-> 0,
      convergence_rate |-> Scale \div 10,
      learning_rate |-> Scale \div 10 ]

(* resample that forgets to reset the phase accumulator *)
randomize_period_keep_time(self) ==
    LET diff == self.range_period.end - self.range_period.start
        p == self.range_period.start + Mul(diff, 0)
    IN  [self EXCEPT !.period = Div(Floor(Mul(p, 10 * Scale)), 10 * Scale)]

randomize_period(self) ==
    LET diff == self.range_period.end - self.range_period.start
        p == self.range_period.start + Mul(diff, 0)
    IN  [self EXCEPT !.period = Div(Floor(Mul(p, 10 * Scale)), 10 * Scale),
                     !.time = 0]

Fluctuator_new(center) == randomize_period([Fluctuator_default EXCEPT !.center = center])

Fluctuator_get(self) ==
    LET theta == (self.time * 2 * PI) \div self.period
    IN  self.center + Mul(self.amplitude, Sin(theta))

(* update that computes the perturbation after advancing the phase *)
Fluctuator_update_late(self, dt, reward) ==
    LET a1 == self.amplitude
                - Mul(Mul(self.convergence_rate, self.range_amplitude.end), reward)
        a2 == RangeClamp(self.range_amplitude, a1)
        theta == ((self.time + dt) * 2 * PI) \div self.period
        d == Mul(a2, Sin(theta))
        s1 == [self EXCEPT !.amplitude = a2,
                           !.center = self.center + Mul(Mul(self.learning_rate, d), reward),
                           !.time = self.time + dt]
    IN  [ self |-> IF s1.time > s1.period THEN randomize_period(s1) ELSE s1,
          ret |-> d ]

Fluctuator_update(self, dt, reward) ==
    LET a1 == self.amplitude
                - Mul(Mul(self.convergence_rate, self.range_amplitude.end), reward)
        a2 == RangeClamp(self.range_amplitude, a1)
        theta == (self.time * 2 * PI) \div self.period
        d == Mul(a2, Sin(theta))
        s1 == [self EXCEPT !.amplitude = a2,
                           !.center = self.center + Mul(Mul(self.learning_rate, d), reward),
                           !.time = self.time + dt]
    IN  [ self |-> IF s1.time > s1.period THEN randomize_period(s1) ELSE s1,
          ret |-> d ]

(* ---------------------------- activation ------------------------------ *)

ExpTable == <<18, 30, 50, 82, 135, 223, 368, 607, 1000,
              1649, 2718, 4482, 7389, 12182, 20086, 33115, 54598>>

ExpHalf == Len(ExpTable) \div 2

Exp(x) ==
    LET k == (2 * x + Scale \div 2) \div Scale
    IN  ExpTable[Max(-ExpHalf, Min(ExpHalf, k)) + ExpHalf + 1]

Recip(x) == Div(Scale, x)

sigmoid(x) == Recip(Scale + Exp(-x))

(* ------------------------------ RLCTRNN ------------------------------- *)

Panic == [panic |-> TRUE, val |-> <<>>]

Ok(v) == [panic |-> FALSE, val |-> v]

Fluctuator_from(value) == Fluctuator_new(value)

RLCTRNN_new(n) ==
    [ count |-> n,
      biases |-> [i \in 1..n |-> Fluctuator_from(0)],
      time_constants |-> [i \in 1..n |-> Fluctuator_from(Scale)],
      weights |-> [i \in 1..n |-> [j \in 1..n |-> Fluctuator_from(0)]] ]

(* setter that also restarts the exploration at full amplitude *)
set_bias_restart(self, index, value) ==
    IF index >= Len(self.biases) THEN Panic
    ELSE Ok([self EXCEPT !.biases[index + 1].center = value,
                         !.biases[index + 1].amplitude = self.biases[index + 1].range_amplitude.end])

set_bias(self, index, value) ==
    IF index >= Len(self.biases) THEN Panic
    ELSE Ok([self EXCEPT !.biases[index + 1].center = value])

set_time_constant(self, index, value) ==
    IF index >= Len(self.time_constants) THEN Panic
    ELSE Ok([self EXCEPT !.time_constants[index + 1].center = value])

(* setter that swaps the row and the column *)
set_weight_transposed(self, from, to, value) ==
    IF from >= Len(self.weights) THEN Panic
    ELSE IF to >= Len(self.weights[from + 1]) THEN Panic
    ELSE Ok([self EXCEPT !.weights[from + 1][to + 1].center = value])

set_weight(self, from, to, value) ==
    IF to >= Len(self.weights) THEN Panic
    ELSE IF from >= Len(self.weights[to + 1]) THEN Panic
    ELSE Ok([self EXCEPT !.weights[to + 1][from + 1].center = value])

add_node(self) == self

RECURSIVE delta_sum(_, _, _, _, _)
delta_sum(self, weights, voltages, j, sum) ==
    IF j >= self.count THEN Ok(sum)
    ELSE IF j >= Len(voltages) \/ j >= Len(self.biases) \/ j >= Len(weights) THEN Panic
    ELSE LET activation == sigmoid(voltages[j + 1] + Fluctuator_get(self.biases[j + 1]))
         IN  delta_sum(self, weights, voltages, j + 1,
                       sum + Mul(Fluctuator_get(weights[j + 1]), activation))

get_delta(self, voltages, index) ==
    IF index >= Len(self.weights) THEN Panic
    ELSE LET s == delta_sum(self, self.weights[index + 1], voltages, 0, 0)
         IN  IF s.panic \/ index >= Len(voltages) \/ index >= Len(self.time_constants)
             THEN Panic
             ELSE Ok(Div(s.val - voltages[index + 1],
                         Fluctuator_get(self.time_constants[index + 1])))

(* sweep that overwrites the voltage vector in place *)
RECURSIVE update_map_in_place(_, _, _, _, _, _)
update_map_in_place(self, dt, voltages, inputs, i, out) ==
    IF i >= self.count THEN Ok(out)
    ELSE IF i >= Len(voltages) THEN Panic
    ELSE LET delta == get_delta(self, voltages, i)
             input == IF i < Len(inputs) THEN inputs[i + 1] ELSE 0
             next == voltages[i + 1] + Mul(delta.val, dt) + input
         IN  IF delta.panic THEN Panic
             ELSE update_map_in_place(self, dt, [voltages EXCEPT ![i + 1] = next], inputs,
                                      i + 1, Append(out, next))

(* sweep that indexes the input vector without a default *)
RECURSIVE update_map_strict(_, _, _, _, _, _)
update_map_strict(self, dt, voltages, inputs, i, out) ==
    IF i >= self.count THEN Ok(out)
    ELSE IF i >= Len(voltages) THEN Panic
    ELSE LET delta == get_delta(self, voltages, i)
         IN  IF delta.panic \/ i >= Len(inputs) THEN Panic
             ELSE update_map_strict(self, dt, voltages, inputs, i + 1,
                                    Append(out, voltages[i + 1] + Mul(delta.val, dt)
                                                  + inputs[i + 1]))

RECURSIVE update_map(_, _, _, _, _, _)
update_map(self, dt, voltages, inputs, i, out) ==
    IF i >= self.count THEN Ok(out)
    ELSE IF i >= Len(voltages) THEN Panic
    ELSE LET delta == get_delta(self, voltages, i)
             input == IF i < Len(inputs) THEN inputs[i + 1] ELSE 0
         IN  IF delta.panic THEN Panic
             ELSE update_map(self, dt, voltages, inputs, i + 1,
                             Append(out, voltages[i + 1] + Mul(delta.val, dt) + input))

WithSelf(r, self) == [panic |-> r.panic, val |-> r.val, self |-> self]

(* tick that also advances every bias oscillator *)
RLCTRNN_update_learn(self, dt, voltages, inputs) ==
    WithSelf(update_map(self, dt, voltages, inputs, 0, <<>>),
             [self EXCEPT !.biases =
                 [i \in 1..Len(self.biases) |-> Fluctuator_update(self.biases[i], dt, 0).self]])

RLCTRNN_update(self, dt, voltages, inputs) ==
    WithSelf(update_map(self, dt, voltages, inputs, 0, <<>>), self)

RECURSIVE outputs_map(_, _, _, _)
outputs_map(self, voltages, i, out) ==
    IF i >= self.count THEN Ok(out)
    ELSE IF i >= Len(voltages) \/ i >= Len(self.biases) THEN Panic
    ELSE outputs_map(self, voltages, i + 1,
                     Append(out, sigmoid(voltages[i + 1] + Fluctuator_get(self.biases[i + 1]))))

get_outputs(self, voltages) == outputs_map(self, voltages, 0, <<>>)

init_voltage(self) == [i \in 1..self.count |-> 0]

(* ------------------------------- CTRNN -------------------------------- *)

Node_new(bias, dt) == [bias |-> bias, time_constant |-> dt]

Node_default == Node_new(0, Scale)

CTRNN_new(n) ==
    [ count |-> n,
      nodes |-> [i \in 1..n |-> Node_default],
      weights |-> [i \in 1..n |-> [j \in 1..n |-> 0]],
      states |-> [i \in 1..n |-> 0] ]

CTRNN_set_weight(self, from, to, weight) ==
    IF to >= Len(self.weights) THEN [panic |-> TRUE, self |-> self]
    ELSE IF from >= Len(self.weights[to + 1]) THEN [panic |-> TRUE, self |-> self]
    ELSE [panic |-> FALSE, self |-> [self EXCEPT !.weights[to + 1][from + 1] = weight]]

CTRNN_set_bias(self, node, bias) ==
    IF node >= Len(self.nodes) THEN [panic |-> TRUE, self |-> self]
    ELSE [panic |-> FALSE, self |-> [self EXCEPT !.nodes[node + 1].bias = bias]]

CTRNN_set_time_constant(self, node, dt) ==
    IF node >= Len(self.nodes) THEN [panic |-> TRUE, self |-> self]
    ELSE [panic |-> FALSE, self |-> [self EXCEPT !.nodes[node + 1].time_constant = dt]]

RECURSIVE tick_sum(_, _, _, _, _)
tick_sum(self, weights, states, j, sum) ==
    IF j >= self.count THEN Ok(sum)
    ELSE IF j >= Len(weights) THEN Panic
    ELSE IF weights[j + 1] = 0 THEN tick_sum(self, weights, states, j + 1, sum)
    ELSE IF j >= Len(states) \/ j >= Len(self.nodes) THEN Panic
    ELSE tick_sum(self, weights, states, j + 1,
                  sum + Mul(weights[j + 1], sigmoid(states[j + 1] - self.nodes[j + 1].bias)))

RECURSIVE tick_loop(_, _, _, _, _)
tick_loop(self, states, inputs, dt, i) ==
    IF i >= self.count THEN [panic |-> FALSE, self |-> self]
    ELSE IF i >= Len(self.weights) \/ i >= Len(states) THEN [panic |-> TRUE, self |-> self]
    ELSE LET s == tick_sum(self, self.weights[i + 1], states, 0, 0)
         IN  IF s.panic \/ i >= Len(inputs) \/ i >= Len(self.nodes)
             THEN [panic |-> TRUE, self |-> self]
             ELSE LET postsynaptic == states[i + 1]
                      dy == Div(s.val - postsynaptic + inputs[i + 1],
                                self.nodes[i + 1].time_constant)
                  IN  tick_loop([self EXCEPT !.states = Append(@, postsynaptic + Mul(dy, dt))],
                                states, inputs, dt, i + 1)

(* tick that forgets to clear the state vector before refilling it *)
tick_no_clear(self, inputs, dt) == tick_loop(self, self.states, inputs, dt, 0)

tick(self, inputs, dt) == tick_loop([self EXCEPT !.states = <<>>], self.states, inputs, dt, 0)

(* ------------------------------ driver -------------------------------- *)

Centers == {0, Scale}

Rewards == {-12 * Scale, -2 * Scale, 0, 1, 2 * Scale, 12 * Scale}

Durations == {0, Scale \div 4, (3 * Scale) \div 2, (13 * Scale) \div 4}

BiasValues == {(3 * Scale) \div 2}

TimeConstantValues == {2 * Scale}

WeightValues == {-Scale}

Steps == {Scale \div 10, Scale}

Prefixes(base) == {SubSeq(base, 1, len) : len \in 0..(size + 1)}

Zeros == [i \in 1..size |-> 0]

Voltages == Prefixes([i \in 1..(MaxNodes + 1) |-> (2 - i) * Scale]) \cup {Zeros}

Inputs == Prefixes([i \in 1..(MaxNodes + 1) |-> (i * Scale) \div 4]) \cup {Zeros}

ReadOps == {"RLCTRNN_update", "get_outputs"}

NoCall == [op |-> "new", panic |-> FALSE]

Init ==
    /\ obj \in {"Fluctuator", "RLCTRNN", "CTRNN"}
    /\ size \in 0..MaxNodes
    /\ obj = "Fluctuator" => size = 0
    /\ \E c \in Centers : flux = Fluctuator_new(c)
    /\ obj # "Fluctuator" => flux.center = 0
    /\ prevFlux = flux
    /\ net = RLCTRNN_new(size)
    /\ prevNet = net
    /\ ctrnn = CTRNN_new(size)
    /\ call = NoCall
    /\ steps = 0
    /\ panicked = FALSE

FluxGet ==
    /\ obj = "Fluctuator"
    /\ ~panicked
    /\ call' = [op |-> "get", panic |-> FALSE, ret |-> Fluctuator_get(flux)]
    /\ prevFlux' = flux
    /\ UNCHANGED <<obj, size, flux, net, prevNet, ctrnn, steps, panicked>>

FluxUpdate ==
    /\ obj = "Fluctuator"
    /\ ~panicked
    /\ steps < MaxSteps
    /\ \E dt \in Durations, reward \in Rewards :
          \E r \in {Fluctuator_update(flux, dt, reward)} :
              /\ flux' = r.self
              /\ call' = [op |-> "update", panic |-> FALSE, dt |-> dt,
                          reward |-> reward, ret |-> r.ret]
    /\ prevFlux' = flux
    /\ steps' = steps + 1
    /\ UNCHANGED <<obj, size, net, prevNet, ctrnn, panicked>>

NetSet(result, c) ==
    \E r \in {result} :
    /\ net' = IF r.panic THEN net ELSE r.val
    /\ prevNet' = net
    /\ panicked' = r.panic
    /\ call' = [c EXCEPT !.panic = r.panic]
    /\ steps' = steps + 1
    /\ UNCHANGED <<obj, size, flux, prevFlux, ctrnn>>

NetSetBias ==
    /\ obj = "RLCTRNN"
    /\ ~panicked
    /\ steps < MaxOps
    /\ \E index \in 0..size, value \in BiasValues :
          NetSet(set_bias(net, index, value),
                 [op |-> "set_bias", panic |-> FALSE, index |-> index, value |-> value])

NetSetTimeConstant ==
    /\ obj = "RLCTRNN"
    /\ ~panicked
    /\ steps < MaxOps
    /\ \E index \in 0..size, value \in TimeConstantValues :
          NetSet(set_time_constant(net, index, value),
                 [op |-> "set_time_constant", panic |-> FALSE, index |-> index,
                  value |-> value])

NetSetWeight ==
    /\ obj = "RLCTRNN"
    /\ ~panicked
    /\ steps < MaxOps
    /\ \E from \in 0..size, to \in 0..size, value \in WeightValues :
          NetSet(set_weight(net, from, to, value),
                 [op |-> "set_weight", panic |-> FALSE, from |-> from, to |-> to,
                  value |-> value])

NetAddNode ==
    /\ obj = "RLCTRNN"
    /\ ~panicked
    /\ net' = add_node(net)
    /\ prevNet' = net
    /\ call' = [op |-> "add_node", panic |-> FALSE]
    /\ UNCHANGED <<obj, size, flux, prevFlux, ctrnn, steps, panicked>>

NetUpdate ==
    /\ obj = "RLCTRNN"
    /\ ~panicked
    /\ call.op \notin ReadOps
    /\ \E dt \in Steps, voltages \in Voltages, inputs \in Inputs :
          \E r \in {RLCTRNN_update(net, dt, voltages, inputs)} :
              /\ call' = [op |-> "RLCTRNN_update", panic |-> r.panic, dt |-> dt,
                          voltages |-> voltages, inputs |-> inputs, ret |-> r.val]
              /\ net' = r.self
              /\ panicked' = r.panic
    /\ prevNet' = net
    /\ UNCHANGED <<obj, size, flux, prevFlux, ctrnn, steps>>

NetGetOutputs ==
    /\ obj = "RLCTRNN"
    /\ ~panicked
    /\ call.op \notin ReadOps
    /\ \E voltages \in Voltages :
          \E r \in {get_outputs(net, voltages)} :
              /\ call' = [op |-> "get_outputs", panic |-> r.panic,
                          voltages |-> voltages, ret |-> r.val]
              /\ panicked' = r.panic
    /\ prevNet' = net
    /\ UNCHANGED <<obj, size, flux, prevFlux, net, ctrnn, steps>>

NetInitVoltage ==
    /\ obj = "RLCTRNN"
    /\ ~panicked
    /\ call' = [op |-> "init_voltage", panic |-> FALSE, ret |-> init_voltage(net)]
    /\ prevNet' = net
    /\ UNCHANGED <<obj, size, flux, prevFlux, net, ctrnn, steps, panicked>>

CtSet(result, c) ==
    \E r \in {result} :
    /\ ctrnn' = r.self
    /\ panicked' = r.panic
    /\ call' = [c EXCEPT !.panic = r.panic]
    /\ steps' = steps + 1
    /\ UNCHANGED <<obj, size, flux, prevFlux, net, prevNet>>

CtSetWeight ==
    /\ obj = "CTRNN"
    /\ ~panicked
    /\ steps < MaxOps
    /\ \E from \in 0..size, to \in 0..size, weight \in WeightValues :
          CtSet(CTRNN_set_weight(ctrnn, from, to, weight),
                [op |-> "CTRNN_set_weight", panic |-> FALSE])

CtSetBias ==
    /\ obj = "CTRNN"
    /\ ~panicked
    /\ steps < MaxOps
    /\ \E node \in 0..size, bias \in BiasValues :
          CtSet(CTRNN_set_bias(ctrnn, node, bias),
                [op |-> "CTRNN_set_bias", panic |-> FALSE])

CtSetTimeConstant ==
    /\ obj = "CTRNN"
    /\ ~panicked
    /\ steps < MaxOps
    /\ \E node \in 0..size, dt \in TimeConstantValues :
          CtSet(CTRNN_set_time_constant(ctrnn, node, dt),
                [op |-> "CTRNN_set_time_constant", panic |-> FALSE])

CtTick ==
    /\ obj = "CTRNN"
    /\ ~panicked
    /\ steps < MaxOps
    /\ \E inputs \in Inputs, dt \in Steps :
          CtSet(tick(ctrnn, inputs, dt),
                [op |-> "tick", panic |-> FALSE, inputs |-> inputs, dt |-> dt])

Next ==
    \/ FluxGet
    \/ FluxUpdate
    \/ NetSetBias
    \/ NetSetTimeConstant
    \/ NetSetWeight
    \/ NetAddNode
    \/ NetUpdate
    \/ NetGetOutputs
    \/ NetInitVoltage
    \/ CtSetWeight
    \/ CtSetBias
    \/ CtSetTimeConstant
    \/ CtTick

Spec == Init /\ [][Next]_vars

(* ------------------------------ claims -------------------------------- *)

amplitude_min == Fluctuator_default.range_amplitude.start

amplitude_max == Fluctuator_default.range_amplitude.end

period_min == Fluctuator_default.range_period.start

Updated == obj = "Fluctuator" /\ call.op = "update"

(* C1: in the state left by every Fluctuator.update call, whatever the      *)
(* reward and dt >= 0, amplitude lies in [amplitude_min, amplitude_max],    *)
(* that is in [0.001, 10.0].                                                *)
C1_AmplitudeBounded ==
    Updated =>
        /\ amplitude_min = Scale \div 1000
        /\ amplitude_max = 10 * Scale
        /\ flux.amplitude >= amplitude_min
        /\ flux.amplitude <= amplitude_max

(* an update whose reward pushed the amplitude past a bound, so that the    *)
(* clamp acted: below the minimum on a later call, above the maximum.       *)
C1_Witness ==
    /\ Updated
    /\ prevFlux.amplitude >= amplitude_min
    /\ \/ prevFlux.amplitude - call.reward < amplitude_min
       \/ prevFlux.amplitude - call.reward > amplitude_max

(* C2: after every update time <= period; the update resamples (period     *)
(* re-chosen, time reset to 0) exactly when the pre-call time + dt exceeds  *)
(* the pre-call period, and otherwise time becomes pre-call time + dt and   *)
(* period is unchanged.                                                     *)
C2_PhaseWrap ==
    Updated =>
        /\ flux.time <= flux.period
        /\ IF prevFlux.time + call.dt > prevFlux.period
           THEN flux.time = 0 /\ flux.period = period_min
           ELSE flux.time = prevFlux.time + call.dt /\ flux.period = prevFlux.period

(* an update that started in mid-period and ran past the period's end       *)
C2_Witness ==
    /\ Updated
    /\ prevFlux.time > 0
    /\ prevFlux.time + call.dt > prevFlux.period
    /\ flux.time = 0

Oscillation(f) == [amplitude |-> f.amplitude, period |-> f.period, time |-> f.time]

NetOscillation(n) ==
    [ biases |-> [i \in 1..Len(n.biases) |-> Oscillation(n.biases[i])],
      time_constants |-> [i \in 1..Len(n.time_constants) |-> Oscillation(n.time_constants[i])],
      weights |-> [i \in 1..Len(n.weights) |->
                     [j \in 1..Len(n.weights[i]) |-> Oscillation(n.weights[i][j])]] ]

(* C3: the read operations change no state: Fluctuator.get leaves the       *)
(* Fluctuator as it was, RLCTRNN.get_outputs and RLCTRNN.update leave every *)
(* field of every owned Fluctuator and the node count as they were; two     *)
(* consecutive get calls return the same value; and only Fluctuator.update  *)
(* changes an amplitude, a period or a time.                                *)
C3_ReadsArePure ==
    [][ /\ call'.op = "get" => flux' = flux
        /\ call'.op \in ReadOps => net' = net
        /\ (call.op = "get" /\ call'.op = "get") => call'.ret = call.ret
        /\ Oscillation(flux') # Oscillation(flux) => call'.op = "update"
        /\ NetOscillation(net') = NetOscillation(net) ]_vars

(* a get made on a Fluctuator that is oscillating in mid-period, and a tick *)
(* of a configured network                                                  *)
C3_Witness ==
    \/ /\ obj = "Fluctuator"
       /\ call.op = "get"
       /\ flux.amplitude > 0
       /\ flux.time > 0
       /\ call.ret # flux.center
    \/ /\ obj = "RLCTRNN"
       /\ call.op = "RLCTRNN_update"
       /\ ~call.panic
       /\ steps > 0
       /\ net.count > 0

Value(f) == Fluctuator_get(f)

RECURSIVE WeightedSum(_, _, _, _)
WeightedSum(n, voltages, i, sources) ==
    IF sources = {} THEN 0
    ELSE LET j == CHOOSE x \in sources : TRUE
         IN  Mul(Value(n.weights[i + 1][j + 1]),
                 sigmoid(voltages[j + 1] + Value(n.biases[j + 1])))
               + WeightedSum(n, voltages, i, sources \ {j})

NextVoltage(n, dt, voltages, inputs, i) ==
    voltages[i + 1]
      + Mul(Div(WeightedSum(n, voltages, i, 0..(n.count - 1)) - voltages[i + 1],
                Value(n.time_constants[i + 1])), dt)
      + (IF i < Len(inputs) THEN inputs[i + 1] ELSE 0)

AllZero(v) == \A k \in 1..Len(v) : v[k] = 0

(* C4: RLCTRNN.update(dt, voltages, inputs) with voltages of length N       *)
(* returns a vector of length N whose entry i is                            *)
(*   voltages[i] + ((sum over j of weights[i][j].get() *                    *)
(*     sigmoid(voltages[j] + biases[j].get())) - voltages[i])               *)
(*     / time_constants[i].get() * dt + inputs[i],                          *)
(* every voltages[j] being the caller's value and an absent inputs[i]       *)
(* counting as 0; with all weight centers 0, default biases and time        *)
(* constants, zero voltages and zero inputs the result is the voltages.     *)
C4_UpdateEquation ==
    (call.op = "RLCTRNN_update" /\ Len(call.voltages) = prevNet.count) =>
        /\ ~call.panic
        /\ Len(call.ret) = prevNet.count
        /\ \A i \in 0..(prevNet.count - 1) :
              call.ret[i + 1]
                = NextVoltage(prevNet, call.dt, call.voltages, call.inputs, i)
        /\ (/\ prevNet = RLCTRNN_new(prevNet.count)
            /\ AllZero(call.voltages)
            /\ AllZero(call.inputs)) => call.ret = call.voltages

(* a tick of a two-node network with a cross weight set, non-zero voltages  *)
(* and an input vector that lacks the last entry                            *)
C4_Witness ==
    /\ call.op = "RLCTRNN_update"
    /\ ~call.panic
    /\ net.count = 2
    /\ Len(call.voltages) = 2
    /\ Len(call.inputs) = 1
    /\ call.inputs[1] # 0
    /\ net.weights[2][1].center # 0
    /\ net.biases[1].center # 0
    /\ call.ret[1] # call.voltages[1]
    /\ call.ret[2] # call.voltages[2]

SetOps == {"set_bias", "set_time_constant", "set_weight"}

Slots(n) ==
    {<<"biases", i>> : i \in 1..Len(n.biases)}
      \cup {<<"time_constants", i>> : i \in 1..Len(n.time_constants)}
      \cup {<<"weights", i, j>> : i \in 1..Len(n.weights), j \in 1..n.count}

Slot(n, s) ==
    IF s[1] = "biases" THEN n.biases[s[2]]
    ELSE IF s[1] = "time_constants" THEN n.time_constants[s[2]]
    ELSE n.weights[s[2]][s[3]]

Target(c) ==
    IF c.op = "set_bias" THEN <<"biases", c.index + 1>>
    ELSE IF c.op = "set_time_constant" THEN <<"time_constants", c.index + 1>>
    ELSE <<"weights", c.to + 1, c.from + 1>>

InRange(c, n) ==
    IF c.op = "set_weight" THEN c.from < n.count /\ c.to < n.count ELSE c.index < n.count

(* C5: for in-range indices set_bias(i, v), set_time_constant(i, v) and     *)
(* set_weight(from, to, v) overwrite the center of exactly one Fluctuator   *)
(* with v (biases[i], time_constants[i], the weight in row to and column    *)
(* from) and leave its amplitude, period and time and every field of every  *)
(* other Fluctuator unchanged.                                              *)
C5_SettersFrame ==
    (call.op \in SetOps /\ InRange(call, prevNet)) =>
        /\ ~call.panic
        /\ net.count = prevNet.count
        /\ Slots(net) = Slots(prevNet)
        /\ \A s \in Slots(prevNet) :
              Slot(net, s) = IF s = Target(call)
                             THEN [Slot(prevNet, s) EXCEPT !.center = call.value]
                             ELSE Slot(prevNet, s)

(* a set_weight between two different nodes that moved the center in row    *)
(* to, column from, and left the mirrored slot at its default               *)
C5_Witness ==
    /\ call.op = "set_weight"
    /\ ~call.panic
    /\ call.from # call.to
    /\ net.weights[call.to + 1][call.from + 1].center = call.value
    /\ net.weights[call.from + 1][call.to + 1].center = 0
    /\ net # prevNet

(* C6 as stated: RLCTRNN.update fails whenever the voltage vector's length  *)
(* or the input vector's length differs from N.                             *)
C6_FailsOnAnyMismatch ==
    (call.op = "RLCTRNN_update"
       /\ (Len(call.voltages) # prevNet.count \/ Len(call.inputs) # prevNet.count))
        => call.panic

PadTo(v, n) == [i \in 1..n |-> IF i <= Len(v) THEN v[i] ELSE 0]

(* C6 amended: RLCTRNN.update fails exactly when the voltage vector has     *)
(* fewer than N entries; otherwise it returns the vector it returns for the *)
(* first N voltages and for the inputs cut or zero-padded to length N.      *)
C6_FailsOnShortVoltages ==
    call.op = "RLCTRNN_update" =>
        /\ call.panic <=> Len(call.voltages) < prevNet.count
        /\ ~call.panic =>
              /\ Len(call.ret) = prevNet.count
              /\ call.ret = RLCTRNN_update(prevNet, call.dt,
                                           SubSeq(call.voltages, 1, prevNet.count),
                                           PadTo(call.inputs, prevNet.count)).val

(* a tick that returned a vector although the voltage vector was too long   *)
(* and the input vector too short                                           *)
C6_Witness ==
    /\ call.op = "RLCTRNN_update"
    /\ ~call.panic
    /\ net.count > 0
    /\ Len(call.voltages) > net.count
    /\ Len(call.inputs) < net.count
    /\ Len(call.ret) = net.count

Square(m, n) == Len(m) = n /\ \A i \in 1..Len(m) : Len(m[i]) = n

(* C7: the network size is fixed at construction: after new(n) and any      *)
(* sequence of successfully completed operations count = n, the bias and    *)
(* time-constant collections (RLCTRNN) or the node and state vectors        *)
(* (CTRNN) have length n and the weight matrix has n rows of n entries;     *)
(* add_node changes nothing.                                                *)
C7_SizeFixed ==
    ~panicked =>
        /\ net.count = size
        /\ Len(net.biases) = size
        /\ Len(net.time_constants) = size
        /\ Square(net.weights, size)
        /\ ctrnn.count = size
        /\ Len(ctrnn.nodes) = size
        /\ Len(ctrnn.states) = size
        /\ Square(ctrnn.weights, size)
        /\ call.op = "add_node" => net = prevNet

(* a CTRNN of the largest size whose last budgeted operation was a tick     *)
(* that moved its states, or an RLCTRNN on which add_node followed setters  *)
C7_Witness ==
    /\ ~panicked
    /\ size = MaxNodes
    /\ \/ obj = "CTRNN" /\ call.op = "tick" /\ steps = MaxOps /\ ctrnn.states # CTRNN_new(size).states
       \/ obj = "RLCTRNN" /\ call.op = "add_node" /\ steps = MaxOps

(* C8: update(dt, reward) returns d = A * sin(2*pi*t/p) with A the          *)
(* amplitude after this call's clamp and t, p the time and period before    *)
(* this call's time advance, and changes center by learning_rate * d *      *)
(* reward; d is what get() - center is after the amplitude step and before  *)
(* the time step; an update made at time 0 returns 0 and keeps center.      *)
C8_Perturbation ==
    Updated =>
        /\ call.ret = Mul(flux.amplitude, Sin((prevFlux.time * 2 * PI) \div prevFlux.period))
        /\ flux.center
             = prevFlux.center + Mul(Mul(prevFlux.learning_rate, call.ret), call.reward)
        /\ call.ret = Fluctuator_get([prevFlux EXCEPT !.amplitude = flux.amplitude])
                        - prevFlux.center
        /\ prevFlux.time = 0 => (call.ret = 0 /\ flux.center = prevFlux.center)

(* an update in mid-period with a non-zero reward, which moved the center   *)
C8_Witness ==
    /\ Updated
    /\ prevFlux.time > 0
    /\ call.dt > 0
    /\ call.ret < 0
    /\ call.reward # 0
    /\ flux.center # prevFlux.center

(* C9: from every state reachable from new by update calls, the fresh one   *)
(* included, an update with reward > 0 never leaves amplitude larger than   *)
(* before and an update with reward < 0 never leaves it smaller than before *)
(* nor above amplitude_max.                                                 *)
C9_RewardAnneals ==
    Updated =>
        /\ call.reward > 0 => flux.amplitude <= prevFlux.amplitude
        /\ call.reward < 0 =>
              (flux.amplitude >= prevFlux.amplitude /\ flux.amplitude <= amplitude_max)

(* C10: in every state of an RLCTRNN reachable through its operations every *)
(* owned Fluctuator has amplitude 0, time 0 and period period_min (3.0), so *)
(* get() = center for every parameter.                                      *)
C10_NetIsFixedParameter ==
    \A s \in Slots(net) :
        /\ Slot(net, s).amplitude = 0
        /\ Slot(net, s).time = 0
        /\ Slot(net, s).period = 3 * Scale
        /\ period_min = 3 * Scale
        /\ Fluctuator_get(Slot(net, s)) = Slot(net, s).center

(* a network that was configured to the budget and then ticked              *)
C10_Witness ==
    /\ obj = "RLCTRNN"
    /\ call.op = "RLCTRNN_update"
    /\ ~call.panic
    /\ steps = MaxOps
    /\ net.count = MaxNodes
    /\ \E s \in Slots(net) : Slot(net, s).center # Slot(RLCTRNN_new(net.count), s).center

====
